---- MODULE Spec2Model ----
(***************************************************************************)
(* A model of generate_migration_tracker_excel.py: the six sheet builders, *)
(* the three styling helpers, and main()'s build / save / print sequence.  *)
(*                                                                         *)
(* Three specifications share the variables:                               *)
(*   Spec        one run of main(), one action per statement of main();    *)
(*   SpecWidth   auto_width applied to sheets and width limits drawn from  *)
(*               bounded sets, and to the six sheets the builders produce; *)
(*   SpecStyle   style_data_rows applied to bounded sheets and arguments.  *)
(*                                                                         *)
(* Text: TLA+ strings are ASCII, so the four non-ASCII code points of the  *)
(* source's data are written as one ASCII character each (EN DASH as "-",  *)
(* RIGHTWARDS ARROW as ">", WHITE HEAVY CHECK MARK as "+", CROSS MARK as   *)
(* "x"); every string keeps its length in code points, which is what       *)
(* Python's len() counts.                                                  *)
(***************************************************************************)
EXTENDS Integers, Sequences, FiniteSets, TLC

VARIABLES
    pc,       \* main(): the statement reached
    wb,       \* main(): the workbook under construction
    today,    \* build_phases_sheet: the value date.today() returned (0: not read)
    disk,     \* the file fabric_capacity_migration_tracker.xlsx on disk
    console,  \* the lines printed so far
    trace,    \* history: the calls main() has made, in order
    stage,    \* helper harness: "idle" | "call" | "returned"
    call,     \* helper harness: the arguments of the call
    ret       \* helper harness: the worksheet after the call

vars == << pc, wb, today, disk, console, trace, stage, call, ret >>

Max(a, b) == IF a >= b THEN a ELSE b
Min(a, b) == IF a <= b THEN a ELSE b

(***************************************************************************)
(* Cell values.  A cell holds a Python str, int, date or None; the model   *)
(* tags each so that values of different types can be compared.            *)
(***************************************************************************)
PyS(s)  == [t |-> "str",  s |-> s,  n |-> 0]
PyI(i)  == [t |-> "int",  s |-> "", n |-> i]
PyD(d) == [t |-> "date", s |-> "", n |-> d]   \* d: the proleptic Gregorian ordinal
None    == [t |-> "none", s |-> "", n |-> 0]

\* datetime.date.max.toordinal(): date(9999, 12, 31)
MAXORDINAL == 3652059

\* bool(v)
Truthy(v) ==
    CASE v.t = "str"  -> v.s # ""
      [] v.t = "int"  -> v.n # 0
      [] v.t = "date" -> TRUE
      [] OTHER        -> FALSE

\* v or ""
OrEmpty(v) == IF Truthy(v) THEN v ELSE PyS("")

Digits == << "0", "1", "2", "3", "4", "5", "6", "7", "8", "9" >>

RECURSIVE NatStr(_)
NatStr(n) == IF n < 10 THEN Digits[n + 1] ELSE NatStr(n \div 10) \o Digits[(n % 10) + 1]

\* str(i) of an int
IntStr(i) == IF i < 0 THEN "-" \o NatStr(0 - i) ELSE NatStr(i)

\* "%0*d" % (w, n)
RECURSIVE ZeroPad(_, _)
ZeroPad(s, w) == IF Len(s) >= w THEN s ELSE ZeroPad("0" \o s, w)

DAYS_IN_MONTH == << 31, 28, 31, 30, 31, 30, 31, 31, 30, 31, 30, 31 >>
DAYS_BEFORE_MONTH == << 0, 31, 59, 90, 120, 151, 181, 212, 243, 273, 304, 334 >>

\* datetime._ord2ymd: ordinal -> <<year, month, day>>
Ord2Ymd(ord) ==
    LET n0   == ord - 1
        n400 == n0 \div 146097
        r400 == n0 % 146097
        n100 == r400 \div 36524
        r100 == r400 % 36524
        n4   == r100 \div 1461
        r4   == r100 % 1461
        n1   == r4 \div 365
        n    == r4 % 365
        year == n400 * 400 + 1 + n100 * 100 + n4 * 4 + n1
        leap == n1 = 3 /\ (n4 # 24 \/ n100 = 3)
        m0   == (n + 50) \div 32
        p0   == DAYS_BEFORE_MONTH[m0] + (IF m0 > 2 /\ leap THEN 1 ELSE 0)
        month == IF p0 > n THEN m0 - 1 ELSE m0
        prec == IF p0 > n
                THEN p0 - (DAYS_IN_MONTH[month] + (IF month = 2 /\ leap THEN 1 ELSE 0))
                ELSE p0
    IN  IF n1 = 4 \/ n100 = 4
        THEN << year - 1, 12, 31 >>
        ELSE << year, month, n - prec + 1 >>

\* date.isoformat(), which is str(date)
DateStr(ord) ==
    LET ymd == Ord2Ymd(ord)
    IN  ZeroPad(NatStr(ymd[1]), 4) \o "-" \o ZeroPad(NatStr(ymd[2]), 2)
            \o "-" \o ZeroPad(NatStr(ymd[3]), 2)

\* str(v)
PyStr(v) ==
    CASE v.t = "str"  -> v.s
      [] v.t = "int"  -> IntStr(v.n)
      [] v.t = "date" -> DateStr(v.n)
      [] OTHER        -> "None"

\* len(str(v or "")), the measure auto_width takes of a cell
TextLen(v) == Len(PyStr(OrEmpty(v)))

Letters == << "A", "B", "C", "D", "E", "F", "G", "H", "I", "J", "K", "L", "M",
              "N", "O", "P", "Q", "R", "S", "T", "U", "V", "W", "X", "Y", "Z" >>

\* openpyxl.utils.get_column_letter
RECURSIVE get_column_letter(_)
get_column_letter(col) ==
    IF col <= 26 THEN Letters[col]
    ELSE get_column_letter((col - 1) \div 26) \o Letters[((col - 1) % 26) + 1]

\* today + timedelta(weeks=k), as an ordinal
PlusWeeks_sub(d, k) == d - 7 * k
PlusWeeks(d, k) == d + 7 * k

(***************************************************************************)
(* Style constants (lines 42-49).  A style is named by what it is.         *)
(***************************************************************************)
NO_FILL       == "none"
HEADER_FILL   == "solid 1F4E79"
ALT_ROW_FILL  == "solid D6E4F0"
DEFAULT_FONT  == "default"
HEADER_FONT   == "bold FFFFFF 11"
NO_BORDER     == "none"
BORDER_THIN   == "thin"
DEFAULT_ALIGN == "default"
WRAP_ALIGN    == "wrap top"
HEADER_ALIGN  == "center center wrap"
CENTER_ALIGN  == "center center"
HEADER_HEIGHT == 30
DEFAULT_MIN_WIDTH == 12
DEFAULT_MAX_WIDTH == 50

(***************************************************************************)
(* The worksheet, as the program uses it.  cells maps <<row, column>> to a *)
(* cell; a cell exists once it was appended or once ws.cell() was asked    *)
(* for it (openpyxl creates it then, with value None).                     *)
(***************************************************************************)
NewCell(v) ==
    [value |-> v, fill |-> NO_FILL, font |-> DEFAULT_FONT,
     alignment |-> DEFAULT_ALIGN, border |-> NO_BORDER]

Worksheet(title) ==
    [title |-> title, cells |-> << >>, current_row |-> 0,
     column_widths |-> << >>, row_heights |-> << >>,
     auto_filter |-> "", freeze_panes |-> ""]

SetMax(S) == CHOOSE m \in S : \A x \in S : m >= x

\* ws.max_row
max_row(ws) ==
    IF DOMAIN ws.cells = {} THEN 1 ELSE SetMax({p[1] : p \in DOMAIN ws.cells})

\* ws.cell(row=r, column=c), read-only view: a cell not yet created reads as a new one
CellAt(ws, r, c) ==
    IF << r, c >> \in DOMAIN ws.cells THEN ws.cells[<< r, c >>] ELSE NewCell(None)

\* ws.append(row)
ws_append(ws, row) ==
    LET row_idx == ws.current_row + 1
    IN  [ws EXCEPT
            !.cells = [p \in {row_idx} \X (1 .. Len(row)) |-> NewCell(row[p[2]])] @@ @,
            !.current_row = row_idx]

\* for row in rows: ws.append(list(row))
RECURSIVE AppendAll(_, _)
AppendAll(ws, rows) ==
    IF rows = << >> THEN ws ELSE AppendAll(ws_append(ws, Head(rows)), Tail(rows))

\* [""] * n
BlankRow_short(n) == [i \in 1 .. (n - 1) |-> PyS("")]
BlankRow(n) == [i \in 1 .. n |-> PyS("")]

\* for _ in range(count): ws.append([""] * n)
RECURSIVE BlankRows_fewer(_, _, _)
BlankRows_fewer(ws, count, n) ==
    IF count <= 1 THEN ws ELSE BlankRows_fewer(ws_append(ws, BlankRow(n)), count - 1, n)
RECURSIVE BlankRows(_, _, _)
BlankRows(ws, count, n) ==
    IF count <= 0 THEN ws ELSE BlankRows(ws_append(ws, BlankRow(n)), count - 1, n)

\* the header list as a row of str cells
HeaderRow(headers) == [i \in 1 .. Len(headers) |-> PyS(headers[i])]

\* the cells at the positions of new, each got with ws.cell(row, column), which
\* creates it when it is missing, and then set to what new gives: the loops of
\* the styling helpers
SetCells(ws, new) ==
    [ws EXCEPT
        !.cells = new @@ @,
        !.current_row = IF DOMAIN new = {} THEN @
                        ELSE Max(@, SetMax({p[1] : p \in DOMAIN new}))]

\* lines 52-60
style_header_row(ws, num_cols) ==
    LET styled == SetCells(ws,
                      [p \in {1} \X (1 .. num_cols) |->
                          [CellAt(ws, p[1], p[2]) EXCEPT !.fill = HEADER_FILL,
                                                         !.font = HEADER_FONT,
                                                         !.alignment = HEADER_ALIGN,
                                                         !.border = BORDER_THIN]])
    IN  [styled EXCEPT !.row_heights = (1 :> HEADER_HEIGHT) @@ @]

\* line 70: alternate and (r - start_row) % 2 == 1
Tinted_abs(r, start_row, alternate) == alternate /\ r % 2 = 1
Tinted(r, start_row, alternate) == alternate /\ (r - start_row) % 2 = 1

\* lines 63-72
style_data_rows(ws, start_row, end_row, num_cols, alternate) ==
    SetCells(ws,
        [p \in (start_row .. end_row) \X (1 .. num_cols) |->
            [CellAt(ws, p[1], p[2]) EXCEPT
                !.border = BORDER_THIN,
                !.alignment = WRAP_ALIGN,
                !.fill = IF Tinted(p[1], start_row, alternate) THEN ALT_ROW_FILL ELSE @]])

\* max(list)
RECURSIVE SeqMax(_)
SeqMax(s) == IF Len(s) = 1 THEN s[1] ELSE Max(s[1], SeqMax(Tail(s)))

\* line 84: min(max(best, min_width), max_width)
Clamp_swapped(best, min_width, max_width) == Max(Min(best, max_width), min_width)
Clamp(best, min_width, max_width) == Min(Max(best, min_width), max_width)

\* lines 78-83: header_len, content_lens and best of one column
Best(ws, col) ==
    LET header_len   == TextLen(CellAt(ws, 1, col).value)
        content_lens == [k \in 1 .. (max_row(ws) - 1) |-> TextLen(CellAt(ws, k + 1, col).value)]
    IN  SeqMax(<< header_len >> \o content_lens) + 4

\* lines 75-84
auto_width(ws, num_cols, min_width, max_width) ==
    LET touched == SetCells(ws,
                       [p \in (1 .. max_row(ws)) \X (1 .. num_cols) |->
                           CellAt(ws, p[1], p[2])])
        letters == {get_column_letter(col) : col \in 1 .. num_cols}
        width(letter) ==
            LET col == CHOOSE c \in 1 .. num_cols : get_column_letter(c) = letter
            IN  Clamp(Best(ws, col), min_width, max_width)
    IN  [touched EXCEPT !.column_widths = [l \in letters |-> width(l)] @@ @]

(***************************************************************************)
(* The workbook: its sheets in order and the index of the active one.      *)
(***************************************************************************)
\* Workbook(): one sheet, titled "Sheet", which is the active one
Workbook == [sheets |-> << Worksheet("Sheet") >>, active |-> 1]

\* wb.sheetnames
sheetnames(w) == [i \in 1 .. Len(w.sheets) |-> w.sheets[i].title]

\* the i-th character of a string
CharAt(s, i) == SubSeq(s, i, i)

LowerLetters == << "a", "b", "c", "d", "e", "f", "g", "h", "i", "j", "k", "l", "m",
                   "n", "o", "p", "q", "r", "s", "t", "u", "v", "w", "x", "y", "z" >>

\* str.lower(), of the ASCII text the model holds
RECURSIVE lower(_)
lower(s) ==
    IF s = "" THEN ""
    ELSE LET c == CharAt(s, 1)
         IN  (IF \E i \in 1 .. 26 : Letters[i] = c
              THEN LowerLetters[CHOOSE i \in 1 .. 26 : Letters[i] = c]
              ELSE c) \o lower(SubSeq(s, 2, Len(s)))

IsDigit(c) == \E d \in 1 .. 10 : Digits[d] = c

\* the regular expression \d*, matched at i: the index after the digits
RECURSIVE DigitRun(_, _)
DigitRun(text, i) ==
    IF i <= Len(text) /\ IsDigit(CharAt(text, i)) THEN DigitRun(text, i + 1) ELSE i

\* int(idx) of a string of digits
RECURSIVE StrNat(_)
StrNat(s) ==
    IF s = "" THEN 0
    ELSE 10 * StrNat(SubSeq(s, 1, Len(s) - 1))
            + (CHOOSE d \in 0 .. 9 : Digits[d + 1] = CharAt(s, Len(s)))

\* sep.join(s)
RECURSIVE Join(_, _)
Join(sep, s) ==
    IF s = << >> THEN ""
    ELSE IF Len(s) = 1 THEN s[1]
    ELSE s[1] \o sep \o Join(sep, Tail(s))

\* openpyxl's avoid_duplicate_name: the numbers that follow an occurrence of
\* value in text, as re.findall finds them from index i on with the pattern
\* (value)(\d*),? and re.I: matches are taken left to right without overlap,
\* an occurrence with no digits gives no number
RECURSIVE title_counts(_, _, _)
title_counts(text, value, i) ==
    IF i > Len(text) THEN {}
    ELSE LET n   == Len(value)
             hit == /\ i + n - 1 <= Len(text)
                    /\ lower(SubSeq(text, i, i + n - 1)) = lower(value)
             d   == DigitRun(text, i + n)
             e   == IF d <= Len(text) /\ CharAt(text, d) = "," THEN d + 1 ELSE d
             idx == SubSeq(text, i + n, d - 1)
         IN  IF hit
             THEN (IF idx = "" THEN {} ELSE { StrNat(idx) })
                      \cup title_counts(text, value, Max(e, i + 1))
             ELSE title_counts(text, value, i + 1)

\* openpyxl's avoid_duplicate_name: a title that some sheet already has,
\* letter case aside, gets the number after the highest one in use appended
avoid_duplicate_name(names, value) ==
    IF \E i \in 1 .. Len(names) : lower(names[i]) = lower(value)
    THEN LET counts  == title_counts(Join(",", names), value, 1)
             highest == IF counts = {} THEN 0 ELSE SetMax(counts)
         IN  value \o NatStr(highest + 1)
    ELSE value

\* wb.create_sheet(title)
create_sheet(w, title) ==
    [w EXCEPT !.sheets = Append(@, Worksheet(avoid_duplicate_name(sheetnames(w), title)))]

\* ws.title = title, for the sheet at index at: a title other than the one the
\* sheet has goes through avoid_duplicate_name
set_title(w, at, title) ==
    IF w.sheets[at].title = title THEN w
    ELSE [w EXCEPT !.sheets[at].title = avoid_duplicate_name(sheetnames(w), title)]

\* f"A1:{get_column_letter(n)}{ws.max_row}"
FilterRef_offbyone(ws, n) == "A1:" \o get_column_letter(n) \o IntStr(max_row(ws) - 1)
FilterRef(ws, n) == "A1:" \o get_column_letter(n) \o IntStr(max_row(ws))

\* build_inventory_sheet: headers (lines 94-100)
inventory_headers ==
    << "Workspace Name", "Capacity Name", "SKU", "Source Region", "Target Region", "Item Name",
       "Item Type", "Movable?", "Migration Complexity", "Suggested Wave", "Business Owner",
       "Data Size (GB)", "External Dependencies", "Notes" >>

\* build_inventory_sheet: examples (lines 104-112)
examples ==
    <<
    << PyS("Sales Workspace"), PyS("FabCap-WestUS-01"), PyS("F64"), PyS("West US"),
       PyS("East US 2"), PyS("Sales Report"), PyS("Report"), PyS("+ Yes"), PyS("Low"), PyI(1),
       PyS("Jane Smith"), PyS(""), PyS(""), PyS("") >>,
    << PyS("ETL Workspace"), PyS("FabCap-WestUS-01"), PyS("F64"), PyS("West US"), PyS("East US 2"),
       PyS("Ingest Pipeline"), PyS("DataPipeline"), PyS("x No"), PyS("High"), PyI(3),
       PyS("Bob Jones"), PyS("~500"), PyS("Databricks (East US 2)"),
       PyS("Must re-create after reassignment") >> >>

\* build_phases_sheet: headers (lines 132-136)
phases_headers ==
    << "Phase", "Phase Name", "Key Milestone", "Owner", "Planned Start", "Planned End",
       "Actual Start", "Actual End", "Status", "% Complete", "Dependencies", "Notes" >>

\* build_phases_sheet: phases (lines 141-176)
phases(day) ==
    <<
    << PyS("Phase 0"), PyS("Discovery & Inventory"),
       PyS("Complete inventory & get business sign-off"), PyS(""), PyD(day),
       PyD(PlusWeeks(day, 2)), PyS(""), PyS(""), PyS("Not Started"), PyS("0%"),
       PyS("Admin API access"), PyS("Run migration-inventory notebook") >>,
    << PyS("Phase 1"), PyS("Target Capacity Setup"),
       PyS("New capacity provisioned & validated in East US 2"), PyS(""), PyD(PlusWeeks(day, 2)),
       PyD(PlusWeeks(day, 3)), PyS(""), PyS(""), PyS("Not Started"), PyS("0%"),
       PyS("Azure subscription, budget approval"),
       PyS("Match SKU to source; configure networking") >>,
    << PyS("Phase 2"), PyS("Wave 1 - Low Complexity"),
       PyS("All movable-only workspaces migrated & validated"), PyS(""), PyD(PlusWeeks(day, 3)),
       PyD(PlusWeeks(day, 5)), PyS(""), PyS(""), PyS("Not Started"), PyS("0%"),
       PyS("Phase 1 complete"), PyS("Reports, Dashboards, Semantic models") >>,
    << PyS("Phase 3"), PyS("Wave 2 - Medium Complexity"),
       PyS("Lakehouses / Warehouses migrated with data copy"), PyS(""), PyD(PlusWeeks(day, 5)),
       PyD(PlusWeeks(day, 8)), PyS(""), PyS(""), PyS("Not Started"), PyS("0%"),
       PyS("Phase 2 complete, data copy tooling ready"),
       PyS("Use AzCopy / Copy Job for data transfer") >>,
    << PyS("Phase 4"), PyS("Wave 3 - High Complexity"),
       PyS("Notebooks, Pipelines, Eventhouses recreated & validated"), PyS(""),
       PyD(PlusWeeks(day, 8)), PyD(PlusWeeks(day, 12)), PyS(""), PyS(""), PyS("Not Started"),
       PyS("0%"), PyS("Phase 3 complete, Git integration"),
       PyS("Pipeline re-creation; end-to-end testing") >>,
    << PyS("Phase 5"), PyS("Validation, Cutover & Decommission"),
       PyS("Business sign-off, source decommissioned"), PyS(""), PyD(PlusWeeks(day, 12)),
       PyD(PlusWeeks(day, 14)), PyS(""), PyS(""), PyS("Not Started"), PyS("0%"),
       PyS("All phases complete"), PyS("Parallel run > cutover > decom") >> >>

\* build_risk_register: headers (lines 195-199)
risk_headers ==
    << "Risk ID", "Risk Description", "Category", "Likelihood (L/M/H)", "Impact (L/M/H)",
       "Risk Level", "Mitigation Strategy", "Risk Owner", "Status", "Notes" >>

\* build_risk_register: risks (lines 202-253)
risks ==
    <<
    << PyS("R-001"), PyS("Non-movable items block workspace reassignment"), PyS("Technical"),
       PyS("High"), PyS("High"), PyS("Critical"),
       PyS("Pre-inventory all items; remove non-movable items before reassignment"), PyS(""),
       PyS("Open"), PyS("Use inventory notebook to classify items") >>,
    << PyS("R-002"), PyS("Dataflow Gen2 staging lakehouses block migration"), PyS("Technical"),
       PyS("Medium"), PyS("High"), PyS("High"),
       PyS("Delete all Dataflow Gen2 items first, then delete staging lakehouses"), PyS(""),
       PyS("Open"), PyS("MS Learn: staging items only visible after DFGen2 deletion") >>,
    << PyS("R-003"), PyS("Admin API rate limits (200 req/hr) slow discovery"), PyS("Technical"),
       PyS("Medium"), PyS("Low"), PyS("Medium"),
       PyS("Implement retry/backoff (already built into notebook helper)"), PyS(""),
       PyS("Mitigated"), PyS("fabric_api_get() handles 429s automatically") >>,
    << PyS("R-004"), PyS("Large-storage-format semantic models cannot cross regions"),
       PyS("Technical"), PyS("Medium"), PyS("High"), PyS("High"),
       PyS("Identify large-storage models early; switch to small storage or recreate"), PyS(""),
       PyS("Open"), PyS("Check semantic model storage format before migration") >>,
    << PyS("R-005"), PyS("Data loss during Lakehouse/Warehouse migration"), PyS("Data"),
       PyS("Low"), PyS("Critical"), PyS("High"),
       PyS("Full backup before migration; validate row counts and checksums post-copy"), PyS(""),
       PyS("Open"), PyS("Use parallel copy + validation queries") >>,
    << PyS("R-006"), PyS("Running jobs cancelled during workspace reassignment"),
       PyS("Operational"), PyS("High"), PyS("Medium"), PyS("High"),
       PyS("Schedule migration during maintenance windows; notify users in advance"), PyS(""),
       PyS("Open"), PyS("MS Learn: reassignment cancels all running jobs") >>,
    << PyS("R-007"), PyS("Business disruption during migration window"), PyS("Business"),
       PyS("Medium"), PyS("High"), PyS("High"),
       PyS("Phased approach with parallel run; communicate schedule to stakeholders"), PyS(""),
       PyS("Open"), PyS("Wave-based migration reduces blast radius") >>,
    << PyS("R-008"), PyS("External dependencies not updated (Databricks, gateways)"),
       PyS("Integration"), PyS("Medium"), PyS("High"), PyS("High"),
       PyS("Document all external deps in inventory; update connection strings post-migration"),
       PyS(""), PyS("Open"),
       PyS("Databricks already in East US 2 - update Fabric endpoints only") >>,
    << PyS("R-009"), PyS("Private Link / VNet configuration breaks after migration"),
       PyS("Networking"), PyS("Medium"), PyS("High"), PyS("High"),
       PyS("Disable Private Link before migration; reconfigure in target region after"), PyS(""),
       PyS("Open"), PyS("MS Learn: Private Link must be temporarily disabled") >>,
    << PyS("R-010"), PyS("Insufficient capacity SKU in target region"), PyS("Planning"),
       PyS("Low"), PyS("High"), PyS("Medium"),
       PyS("Verify target region SKU availability; request quota increase if needed"), PyS(""),
       PyS("Open"), PyS("Check Azure capacity quotas before Phase 1") >> >>

\* build_raci_matrix: headers (lines 273-278)
raci_headers ==
    << "Task / Activity", "Fabric Admin", "Cloud Platform Team", "Data Engineering",
       "BI / Analytics", "Business Owner", "Security / Networking", "Project Manager" >>

\* tasks with one code mistyped
tasks_typo ==
    <<
    << PyS("Run inventory notebook"), PyS("R/A"), PyS("I"), PyS("C"), PyS("I"), PyS("I"), PyS("I"),
       PyS("I") >>,
    << PyS("Provision target Fabric capacity"), PyS("R"), PyS("A/R"), PyS("I"), PyS("I"), PyS("I"),
       PyS("C"), PyS("I") >>,
    << PyS("Configure networking (VNet/PE)"), PyS("C"), PyS("R/A"), PyS("I"), PyS("I"), PyS("I"),
       PyS("R"), PyS("I") >>,
    << PyS("Backup lakehouse/warehouse data"), PyS("C"), PyS("I"), PyS("R/A"), PyS("I"), PyS("I"),
       PyS("I"), PyS("I") >>,
    << PyS("Migrate Wave 1 workspaces (movable)"), PyS("R/A"), PyS("I"), PyS("I"), PyS("C"),
       PyS("I"), PyS("I"), PyS("I") >>,
    << PyS("Copy data to target lakehouses"), PyS("C"), PyS("I"), PyS("R/A"), PyS("I"), PyS("I"),
       PyS("I"), PyS("I") >>,
    << PyS("Remove non-movable items from source"), PyS("R/A"), PyS("I"), PyS("C"), PyS("C"),
       PyS("I"), PyS("I"), PyS("I") >>,
    << PyS("Reassign workspaces to target capacity"), PyS("R/A"), PyS("I"), PyS("I"), PyS("I"),
       PyS("I"), PyS("I"), PyS("I") >>,
    << PyS("Recreate pipelines & notebooks"), PyS("C"), PyS("I"), PyS("R/A"), PyS("I"), PyS("I"),
       PyS("I"), PyS("I") >>,
    << PyS("Recreate eventhouses & KQL databases"), PyS("C"), PyS("I"), PyS("R/A"), PyS("I"),
       PyS("I"), PyS("I"), PyS("I") >>,
    << PyS("Validate reports & dashboards"), PyS("I"), PyS("I"), PyS("I"), PyS("R/A"), PyS("C"),
       PyS("I"), PyS("I") >>,
    << PyS("Validate data pipelines end-to-end"), PyS("I"), PyS("I"), PyS("R/A"), PyS("C"),
       PyS("C"), PyS("I"), PyS("I") >>,
    << PyS("Update Databricks connections"), PyS("I"), PyS("I"), PyS("R/A"), PyS("I"), PyS("I"),
       PyS("I"), PyS("I") >>,
    << PyS("Business sign-off per wave"), PyS("I"), PyS("I"), PyS("I"), PyS("C"), PyS("R/A"),
       PyS("I"), PyS("I") >>,
    << PyS("Decommission source capacities"), PyS("R"), PyS("A"), PyS("I"), PyS("I"), PyS("I"),
       PyS("C"), PyS("I") >>,
    << PyS("Update private endpoints / DNS"), PyS("C"), PyS("R"), PyS("I"), PyS("I"), PyS("I"),
       PyS("R/A"), PyS("I") >>,
    << PyS("Overall project coordination"), PyS("C"), PyS("C"), PyS("C"), PyS("C"), PyS("C"),
       PyS("C"), PyS("R/A") >> >>

\* build_raci_matrix: tasks (lines 282-300)
tasks ==
    <<
    << PyS("Run inventory notebook"), PyS("R/A"), PyS("I"), PyS("C"), PyS("I"), PyS("I"), PyS("I"),
       PyS("I") >>,
    << PyS("Provision target Fabric capacity"), PyS("R"), PyS("A"), PyS("I"), PyS("I"), PyS("I"),
       PyS("C"), PyS("I") >>,
    << PyS("Configure networking (VNet/PE)"), PyS("C"), PyS("R/A"), PyS("I"), PyS("I"), PyS("I"),
       PyS("R"), PyS("I") >>,
    << PyS("Backup lakehouse/warehouse data"), PyS("C"), PyS("I"), PyS("R/A"), PyS("I"), PyS("I"),
       PyS("I"), PyS("I") >>,
    << PyS("Migrate Wave 1 workspaces (movable)"), PyS("R/A"), PyS("I"), PyS("I"), PyS("C"),
       PyS("I"), PyS("I"), PyS("I") >>,
    << PyS("Copy data to target lakehouses"), PyS("C"), PyS("I"), PyS("R/A"), PyS("I"), PyS("I"),
       PyS("I"), PyS("I") >>,
    << PyS("Remove non-movable items from source"), PyS("R/A"), PyS("I"), PyS("C"), PyS("C"),
       PyS("I"), PyS("I"), PyS("I") >>,
    << PyS("Reassign workspaces to target capacity"), PyS("R/A"), PyS("I"), PyS("I"), PyS("I"),
       PyS("I"), PyS("I"), PyS("I") >>,
    << PyS("Recreate pipelines & notebooks"), PyS("C"), PyS("I"), PyS("R/A"), PyS("I"), PyS("I"),
       PyS("I"), PyS("I") >>,
    << PyS("Recreate eventhouses & KQL databases"), PyS("C"), PyS("I"), PyS("R/A"), PyS("I"),
       PyS("I"), PyS("I"), PyS("I") >>,
    << PyS("Validate reports & dashboards"), PyS("I"), PyS("I"), PyS("I"), PyS("R/A"), PyS("C"),
       PyS("I"), PyS("I") >>,
    << PyS("Validate data pipelines end-to-end"), PyS("I"), PyS("I"), PyS("R/A"), PyS("C"),
       PyS("C"), PyS("I"), PyS("I") >>,
    << PyS("Update Databricks connections"), PyS("I"), PyS("I"), PyS("R/A"), PyS("I"), PyS("I"),
       PyS("I"), PyS("I") >>,
    << PyS("Business sign-off per wave"), PyS("I"), PyS("I"), PyS("I"), PyS("C"), PyS("R/A"),
       PyS("I"), PyS("I") >>,
    << PyS("Decommission source capacities"), PyS("R"), PyS("A"), PyS("I"), PyS("I"), PyS("I"),
       PyS("C"), PyS("I") >>,
    << PyS("Update private endpoints / DNS"), PyS("C"), PyS("R"), PyS("I"), PyS("I"), PyS("I"),
       PyS("R/A"), PyS("I") >>,
    << PyS("Overall project coordination"), PyS("C"), PyS("C"), PyS("C"), PyS("C"), PyS("C"),
       PyS("C"), PyS("R/A") >> >>

\* build_issue_tracker: headers (lines 330-334)
issue_headers ==
    << "Issue ID", "Date Raised", "Workspace / Item", "Issue Description",
       "Severity (P1/P2/P3/P4)", "Assigned To", "Status", "Resolution", "Date Resolved", "Notes" >>

\* build_issue_tracker: the example row (lines 338-342)
issue_example ==
    << PyS("ISS-001"), PyS(""), PyS("Example Workspace / Lakehouse"),
       PyS("(Example) Data mismatch after copy - row count differs by 5"), PyS("P2"), PyS(""),
       PyS("Open"), PyS(""), PyS(""), PyS("") >>

\* build_validation_checklist: headers (lines 359-363)
checklist_headers ==
    << "Wave", "Workspace Name", "Validation Step", "Expected Result", "Actual Result",
       "Pass/Fail", "Validated By", "Date", "Notes" >>

\* build_validation_checklist: checks (lines 366-397)
checks ==
    <<
    << PyI(1), PyS("(Wave 1 workspace)"), PyS("Reports render correctly"),
       PyS("All visuals load without error"), PyS(""), PyS(""), PyS(""), PyS(""), PyS("") >>,
    << PyI(1), PyS("(Wave 1 workspace)"), PyS("Semantic model refresh succeeds"),
       PyS("Refresh completes < 2x baseline duration"), PyS(""), PyS(""), PyS(""), PyS(""),
       PyS("") >>,
    << PyI(1), PyS("(Wave 1 workspace)"), PyS("Dashboard tiles load"),
       PyS("All tiles display data"), PyS(""), PyS(""), PyS(""), PyS(""), PyS("") >>,
    << PyI(1), PyS("(Wave 1 workspace)"), PyS("Data gateway connectivity"),
       PyS("On-prem data sources accessible"), PyS(""), PyS(""), PyS(""), PyS(""), PyS("") >>,
    << PyI(2), PyS("(Wave 2 workspace)"), PyS("Lakehouse row counts match source"),
       PyS("Row count delta = 0"), PyS(""), PyS(""), PyS(""), PyS(""), PyS("") >>,
    << PyI(2), PyS("(Wave 2 workspace)"), PyS("Warehouse query results match"),
       PyS("Checksum/hash comparison passes"), PyS(""), PyS(""), PyS(""), PyS(""), PyS("") >>,
    << PyI(2), PyS("(Wave 2 workspace)"), PyS("SQL endpoint accessible"),
       PyS("Queries execute successfully"), PyS(""), PyS(""), PyS(""), PyS(""), PyS("") >>,
    << PyI(2), PyS("(Wave 2 workspace)"), PyS("Semantic models connect to new lakehouse"),
       PyS("No connection errors"), PyS(""), PyS(""), PyS(""), PyS(""), PyS("") >>,
    << PyI(3), PyS("(Wave 3 workspace)"), PyS("Notebooks execute without error"),
       PyS("All cells pass"), PyS(""), PyS(""), PyS(""), PyS(""), PyS("") >>,
    << PyI(3), PyS("(Wave 3 workspace)"), PyS("Data pipelines run end-to-end"),
       PyS("Pipeline succeeds with expected output"), PyS(""), PyS(""), PyS(""), PyS(""), PyS("") >>,
    << PyI(3), PyS("(Wave 3 workspace)"), PyS("Eventhouse ingestion active"),
       PyS("Events streaming into KQL database"), PyS(""), PyS(""), PyS(""), PyS(""), PyS("") >>,
    << PyI(3), PyS("(Wave 3 workspace)"), PyS("Spark jobs complete on schedule"),
       PyS("Job duration within 2x baseline"), PyS(""), PyS(""), PyS(""), PyS(""), PyS("") >>,
    << PyI(3), PyS("(Wave 3 workspace)"), PyS("Databricks connections functional"),
       PyS("Fabric pipeline invokes Databricks successfully"), PyS(""), PyS(""), PyS(""), PyS(""),
       PyS("") >>,
    << PyS("All"), PyS("ALL"), PyS("Capacity utilization within thresholds"),
       PyS("CU% < 80% sustained"), PyS(""), PyS(""), PyS(""), PyS(""), PyS("") >>,
    << PyS("All"), PyS("ALL"), PyS("No orphaned items in source region"),
       PyS("Source capacity empty"), PyS(""), PyS(""), PyS(""), PyS(""), PyS("") >> >>

(***************************************************************************)
(* The sheet builders.  Each takes the workbook and returns it with its    *)
(* sheet built; the statements are composed in program order.              *)
(***************************************************************************)
\* lines 91-92: ws = wb.active; ws.title = "Migration Inventory"
inventory_target_created(w) ==
    [wb |-> create_sheet(w, "Migration Inventory"), at |-> Len(w.sheets) + 1]
inventory_target(w) ==
    [wb |-> set_title(w, w.active, "Migration Inventory"), at |-> w.active]

\* lines 89-125
build_inventory_sheet(w) ==
    LET tgt == inventory_target(w)
        n   == Len(inventory_headers)
        ws1 == ws_append(tgt.wb.sheets[tgt.at], HeaderRow(inventory_headers))
        ws2 == AppendAll(ws1, examples)
        ws3 == BlankRows(ws2, 20, n)
        ws4 == style_header_row(ws3, n)
        ws5 == style_data_rows(ws4, 2, max_row(ws4), n, TRUE)
        ws6 == auto_width(ws5, n, DEFAULT_MIN_WIDTH, DEFAULT_MAX_WIDTH)
        ws7 == [ws6 EXCEPT !.auto_filter = FilterRef(ws6, n)]
        ws8 == [ws7 EXCEPT !.freeze_panes = "A2"]
    IN  [tgt.wb EXCEPT !.sheets[tgt.at] = ws8]

\* date + timedelta raises OverflowError when the result leaves date.min .. date.max
DateOverflow(rows) ==
    \E i \in 1 .. Len(rows) : \E j \in 1 .. Len(rows[i]) :
        rows[i][j].t = "date" /\ (rows[i][j].n < 1 \/ rows[i][j].n > MAXORDINAL)

\* lines 187-188: the Status column (9) is centred
center_status(ws) ==
    SetCells(ws,
        [p \in (2 .. max_row(ws)) \X {9} |->
            [CellAt(ws, p[1], p[2]) EXCEPT !.alignment = CENTER_ALIGN]])

\* lines 128-188, with t the value of date.today(): the workbook, and whether
\* the phases list (lines 141-176) raised before any phase row was appended
build_phases_sheet(w, t) ==
    LET w1  == create_sheet(w, "Migration Phases")
        at  == Len(w1.sheets)
        n   == Len(phases_headers)
        ws1 == ws_append(w1.sheets[at], HeaderRow(phases_headers))
        ws2 == AppendAll(ws1, phases(t))
        ws3 == style_header_row(ws2, n)
        ws4 == style_data_rows(ws3, 2, max_row(ws3), n, TRUE)
        ws5 == auto_width(ws4, n, DEFAULT_MIN_WIDTH, DEFAULT_MAX_WIDTH)
        ws6 == [ws5 EXCEPT !.freeze_panes = "A2"]
        ws7 == center_status(ws6)
    IN  IF DateOverflow(phases(t))
        THEN [wb |-> [w1 EXCEPT !.sheets[at] = ws1], raised |-> TRUE]
        ELSE [wb |-> [w1 EXCEPT !.sheets[at] = ws7], raised |-> FALSE]

\* lines 191-266
build_risk_register(w) ==
    LET w1  == create_sheet(w, "Risk Register")
        at  == Len(w1.sheets)
        n   == Len(risk_headers)
        ws1 == ws_append(w1.sheets[at], HeaderRow(risk_headers))
        ws2 == AppendAll(ws1, risks)
        ws3 == BlankRows(ws2, 10, n)
        ws4 == style_header_row(ws3, n)
        ws5 == style_data_rows(ws4, 2, max_row(ws4), n, TRUE)
        ws6 == auto_width(ws5, n, DEFAULT_MIN_WIDTH, DEFAULT_MAX_WIDTH)
        ws7 == [ws6 EXCEPT !.auto_filter = FilterRef(ws6, n)]
        ws8 == [ws7 EXCEPT !.freeze_panes = "A2"]
    IN  [w1 EXCEPT !.sheets[at] = ws8]

\* lines 311-317: the fill of each RACI code
raci_keys == { "R", "A", "R/A", "C", "I" }

raci_fills ==
    [k \in raci_keys |->
        CASE k = "R"   -> "solid C6EFCE"
          [] k = "A"   -> "solid BDD7EE"
          [] k = "R/A" -> "solid 92D050"
          [] k = "C"   -> "solid FFE699"
          [] OTHER     -> "solid F2F2F2"]

\* the characters str.strip() removes, those below U+0080 (the model's text is
\* ASCII): tab, line feed, vertical tab, form feed, carriage return, the four
\* separators U+001C .. U+001F (written raw in the literals), and space
Whitespace ==
    { "\t", "\n", "", "\f", "\r", "", "", "", "", " " }

\* str.lstrip()
RECURSIVE lstrip(_)
lstrip(s) ==
    IF s # "" /\ CharAt(s, 1) \in Whitespace THEN lstrip(SubSeq(s, 2, Len(s))) ELSE s

\* str.rstrip()
RECURSIVE rstrip(_)
rstrip(s) ==
    IF s # "" /\ CharAt(s, Len(s)) \in Whitespace
    THEN rstrip(SubSeq(s, 1, Len(s) - 1))
    ELSE s

\* str.strip(): every run of whitespace at either end is removed
strip(s) == rstrip(lstrip(s))

\* lines 318-323
color_code(ws, n) ==
    SetCells(ws,
        [p \in (2 .. max_row(ws)) \X (2 .. n) |->
            LET cell == CellAt(ws, p[1], p[2])
                val  == strip(PyStr(OrEmpty(cell.value)))
            IN  IF val \in raci_keys
                THEN [cell EXCEPT !.fill = raci_fills[val], !.alignment = CENTER_ALIGN]
                ELSE cell])

\* line 308
RACI_FREEZE_header_only == "A2"
RACI_FREEZE == "B2"

\* lines 269-323
build_raci_matrix(w) ==
    LET w1  == create_sheet(w, "RACI Matrix")
        at  == Len(w1.sheets)
        n   == Len(raci_headers)
        ws1 == ws_append(w1.sheets[at], HeaderRow(raci_headers))
        ws2 == AppendAll(ws1, tasks)
        ws3 == style_header_row(ws2, n)
        ws4 == style_data_rows(ws3, 2, max_row(ws3), n, TRUE)
        ws5 == auto_width(ws4, n, DEFAULT_MIN_WIDTH, DEFAULT_MAX_WIDTH)
        ws6 == [ws5 EXCEPT !.freeze_panes = RACI_FREEZE]
        ws7 == color_code(ws6, n)
    IN  [w1 EXCEPT !.sheets[at] = ws7]

\* lines 326-352
build_issue_tracker(w) ==
    LET w1  == create_sheet(w, "Issue Tracker")
        at  == Len(w1.sheets)
        n   == Len(issue_headers)
        ws1 == ws_append(w1.sheets[at], HeaderRow(issue_headers))
        ws2 == ws_append(ws1, issue_example)
        ws3 == BlankRows(ws2, 30, n)
        ws4 == style_header_row(ws3, n)
        ws5 == style_data_rows(ws4, 2, max_row(ws4), n, TRUE)
        ws6 == auto_width(ws5, n, DEFAULT_MIN_WIDTH, DEFAULT_MAX_WIDTH)
        ws7 == [ws6 EXCEPT !.auto_filter = FilterRef(ws6, n)]
        ws8 == [ws7 EXCEPT !.freeze_panes = "A2"]
    IN  [w1 EXCEPT !.sheets[at] = ws8]

\* lines 355-410
build_validation_checklist(w) ==
    LET w1  == create_sheet(w, "Validation Checklist")
        at  == Len(w1.sheets)
        n   == Len(checklist_headers)
        ws1 == ws_append(w1.sheets[at], HeaderRow(checklist_headers))
        ws2 == AppendAll(ws1, checks)
        ws3 == BlankRows(ws2, 15, n)
        ws4 == style_header_row(ws3, n)
        ws5 == style_data_rows(ws4, 2, max_row(ws4), n, TRUE)
        ws6 == auto_width(ws5, n, DEFAULT_MIN_WIDTH, DEFAULT_MAX_WIDTH)
        ws7 == [ws6 EXCEPT !.auto_filter = FilterRef(ws6, n)]
        ws8 == [ws7 EXCEPT !.freeze_panes = "A2"]
    IN  [w1 EXCEPT !.sheets[at] = ws8]

(***************************************************************************)
(* main() (lines 415-434): the six builders, the save, the summary.        *)
(***************************************************************************)
OUTPUT == "fabric_capacity_migration_tracker.xlsx"

SheetNames ==
    << "Migration Inventory", "Migration Phases", "Risk Register",
       "RACI Matrix", "Issue Tracker", "Validation Checklist" >>

\* The output file: whether it exists, which run wrote it, whether what it
\* holds is a complete workbook, and the sheets of that workbook.
ABSENT == [exists |-> FALSE, by |-> "nobody", complete |-> FALSE, sheets |-> << >>]
STALE  == [exists |-> TRUE, by |-> "earlier run", complete |-> TRUE, sheets |-> SheetNames]

\* line 426, wb.save(output).  openpyxl opens the target as a zip archive for
\* writing, which creates or truncates it, then serialises the workbook into it
\* and closes it.  The call returns ("ok"), raises before the file is touched
\* (the path cannot be opened for writing: "open_error"), or raises after the
\* file was truncated (the write fails part-way: "write_error").
SaveOutcomes == { "ok", "open_error", "write_error" }

save(w, d, outcome) ==
    CASE outcome = "ok" ->
            [disk |-> [exists |-> TRUE, by |-> "this run", complete |-> TRUE,
                       sheets |-> sheetnames(w)],
             raised |-> FALSE]
      [] outcome = "open_error" ->
            [disk |-> d, raised |-> TRUE]
      [] OTHER ->
            [disk |-> [exists |-> TRUE, by |-> "this run", complete |-> FALSE,
                       sheets |-> << >>],
             raised |-> TRUE]

\* an exception leaves main(): nothing after the raising statement runs
AfterCall_swallowed(raised, next) == next
AfterCall(raised, next) == IF raised THEN "aborted" ELSE next

\* lines 427-434: the eight lines printed, in order.  The first character of
\* the first line is U+2705 in the source.
summary(w) ==
    << "+ Migration tracker generated: " \o OUTPUT,
       "   Sheets: " \o Join(", ", sheetnames(w)),
       "",
       "Next steps:",
       "  1. Run the inventory notebook to generate CSV exports",
       "  2. Paste CSV data into the 'Migration Inventory' sheet",
       "  3. Fill in owners, dates, and external dependencies",
       "  4. Share with stakeholders for review" >>

\* sys.stdout.encoding, which print() encodes each line with
Encodings == { "utf-8", "ascii", "latin-1", "cp1252" }

\* what writing a line to stdout does: it is written, or the write raises
\* OSError (a closed pipe, a full disk, a file size limit)
WriteOutcomes == { "written", "os_error" }

\* print(summary[k]) raises UnicodeEncodeError: the line holds U+2705 (line 427
\* only), which of these encodings only utf-8 has
EncodeError(encoding, k) == k = 1 /\ encoding # "utf-8"

\* The values date.today() takes in the model, as ordinals: 1970-01-01,
\* 2024-02-29, 2024-12-25, 2025-06-15, 2026-10-31, 2027-01-01, 2030-12-31,
\* 2038-01-19, 9999-09-24 (the last day whose fourteenth week still is a date),
\* 9999-09-25 and 9999-12-31 (whose later phases are past date.max)
Days == { 719163, 738945, 739245, 739417, 739920, 739982, 741442, 744018,
          3651961, 3651962, 3652059 }

NoCall == [fn |-> "none"]

HarnessIdle == stage = "idle" /\ call = NoCall /\ ret = Worksheet("")

MainStart ==
    /\ pc = "start"
    /\ wb = Workbook
    /\ today = 0
    /\ console = << >>
    /\ trace = << >>

\* the state of a helper call made outside a run of main()
HelperOnly ==
    /\ pc = "helper"
    /\ wb = Workbook
    /\ today = 0
    /\ disk = ABSENT
    /\ console = << >>
    /\ trace = << >>

Init == MainStart /\ disk \in { ABSENT, STALE } /\ HarnessIdle

\* line 418
BuildInventory ==
    /\ pc = "start"
    /\ wb' = build_inventory_sheet(wb)
    /\ pc' = "sheet1"
    /\ trace' = Append(trace, "build_inventory_sheet")
    /\ UNCHANGED << today, disk, console, stage, call, ret >>

\* line 419
BuildPhases ==
    /\ pc = "sheet1"
    /\ \E t \in Days :
        LET r == build_phases_sheet(wb, t)
        IN  /\ today' = t
            /\ wb' = r.wb
            /\ pc' = AfterCall(r.raised, "sheet2")
    /\ trace' = Append(trace, "build_phases_sheet")
    /\ UNCHANGED << disk, console, stage, call, ret >>

\* line 420
BuildRisk ==
    /\ pc = "sheet2"
    /\ wb' = build_risk_register(wb)
    /\ pc' = "sheet3"
    /\ trace' = Append(trace, "build_risk_register")
    /\ UNCHANGED << today, disk, console, stage, call, ret >>

\* line 421
BuildRaci ==
    /\ pc = "sheet3"
    /\ wb' = build_raci_matrix(wb)
    /\ pc' = "sheet4"
    /\ trace' = Append(trace, "build_raci_matrix")
    /\ UNCHANGED << today, disk, console, stage, call, ret >>

\* line 422
BuildIssue ==
    /\ pc = "sheet4"
    /\ wb' = build_issue_tracker(wb)
    /\ pc' = "sheet5"
    /\ trace' = Append(trace, "build_issue_tracker")
    /\ UNCHANGED << today, disk, console, stage, call, ret >>

\* line 423
BuildChecklist ==
    /\ pc = "sheet5"
    /\ wb' = build_validation_checklist(wb)
    /\ pc' = "sheet6"
    /\ trace' = Append(trace, "build_validation_checklist")
    /\ UNCHANGED << today, disk, console, stage, call, ret >>

\* lines 425-426
Save ==
    /\ pc = "sheet6"
    /\ \E outcome \in SaveOutcomes :
        LET r == save(wb, disk, outcome)
        IN  /\ disk' = r.disk
            /\ pc' = AfterCall(r.raised, "saved")
    /\ trace' = Append(trace, "save")
    /\ UNCHANGED << wb, today, console, stage, call, ret >>

\* lines 427-434, one print call at a time: the k-th call writes the k-th line,
\* or raises, when stdout cannot encode the line or cannot be written to, which
\* ends the run after the save with the lines of the earlier calls printed.
\* (console holds whole lines: the part of a line a failing write may leave on
\* stdout is not kept.)
PrintSummaryLine ==
    /\ pc = "saved"
    /\ LET k == Len(console) + 1
       IN  \E encoding \in Encodings : \E outcome \in WriteOutcomes :
            IF EncodeError(encoding, k) \/ outcome = "os_error"
            THEN /\ console' = console
                 /\ pc' = AfterCall(TRUE, "saved")
            ELSE /\ console' = Append(console, summary(wb)[k])
                 /\ pc' = AfterCall(FALSE, IF k = Len(summary(wb)) THEN "done" ELSE "saved")
    /\ trace' = Append(trace, "print")
    /\ UNCHANGED << wb, today, disk, stage, call, ret >>

Next ==
    \/ BuildInventory
    \/ BuildPhases
    \/ BuildRisk
    \/ BuildRaci
    \/ BuildIssue
    \/ BuildChecklist
    \/ Save
    \/ PrintSummaryLine

Spec == Init /\ [][Next]_vars

(***************************************************************************)
(* The helper harness: one call of a styling helper on a worksheet drawn   *)
(* from a bounded set, with arguments drawn from bounded sets.             *)
(***************************************************************************)
\* the number of cells of row 1
HeaderCount(ws) == Cardinality({p \in DOMAIN ws.cells : p[1] = 1})

\* the rows a test sheet is appended from: a header row, then data rows
RowLists(nrows, ncols, head, data) ==
    IF nrows = 0 THEN { << >> }
    ELSE { << h >> \o d : h \in [1 .. ncols -> head],
                          d \in [1 .. (nrows - 1) -> [1 .. ncols -> data]] }

\* ---- auto_width ----
WidthMaxRows == 3
WidthMaxCols == 2

WidthHeaders == { PyS("ab"), PyS("abcdefghij") }
WidthData    == { PyI(0), PyS("abcdefg") }
\* <<min_width, max_width>>: the defaults, a narrow range, and an empty one
WidthLimits  == { << DEFAULT_MIN_WIDTH, DEFAULT_MAX_WIDTH >>, << 5, 12 >>, << 12, 5 >> }

WidthSheets ==
    UNION { { AppendAll(Worksheet("Grid"), rows) :
                rows \in RowLists(nrows, ncols, WidthHeaders, WidthData) } :
            nrows \in 0 .. WidthMaxRows, ncols \in 1 .. WidthMaxCols }

WidthCalls ==
    { [fn |-> "auto_width", ws |-> s, num_cols |-> n,
       min_width |-> lim[1], max_width |-> lim[2], built |-> FALSE] :
        s \in WidthSheets, n \in 0 .. (WidthMaxCols + 1), lim \in WidthLimits }

\* either a call on a test sheet, or the start of a run of main() whose built
\* sheets are then passed to auto_width again
InitWidth ==
    \/ /\ HelperOnly
       /\ stage = "call"
       /\ call \in WidthCalls
       /\ ret = call.ws
    \/ /\ MainStart
       /\ disk = ABSENT
       /\ HarnessIdle

\* a sheet of the workbook the six builders have built
PickBuilt ==
    /\ stage = "idle"
    /\ pc = "sheet6"
    /\ \E i \in 1 .. Len(wb.sheets) : \E lim \in WidthLimits :
        /\ call' = [fn |-> "auto_width", ws |-> wb.sheets[i],
                    num_cols |-> HeaderCount(wb.sheets[i]),
                    min_width |-> lim[1], max_width |-> lim[2], built |-> TRUE]
        /\ ret' = wb.sheets[i]
    /\ stage' = "call"
    /\ UNCHANGED << pc, wb, today, disk, console, trace >>

CallAutoWidth ==
    /\ stage = "call"
    /\ call.fn = "auto_width"
    /\ ret' = auto_width(call.ws, call.num_cols, call.min_width, call.max_width)
    /\ stage' = "returned"
    /\ UNCHANGED << pc, wb, today, disk, console, trace, call >>

NextWidth ==
    \/ BuildInventory
    \/ BuildPhases
    \/ BuildRisk
    \/ BuildRaci
    \/ BuildIssue
    \/ BuildChecklist
    \/ PickBuilt
    \/ CallAutoWidth

SpecWidth == InitWidth /\ [][NextWidth]_vars

\* ---- style_data_rows ----
StyleMaxRows == 4
StyleMaxCols == 2

\* a sheet of nrows rows of ncols cells, each cell holding its own coordinate
CoordinateSheet(nrows, ncols) ==
    AppendAll(Worksheet("Grid"),
        [r \in 1 .. nrows |-> [c \in 1 .. ncols |-> PyS(get_column_letter(c) \o IntStr(r))]])

\* each with its header row already styled, or not
StyleSheets ==
    UNION { { CoordinateSheet(nrows, ncols),
              style_header_row(CoordinateSheet(nrows, ncols), ncols) } :
            nrows \in 0 .. StyleMaxRows, ncols \in 1 .. StyleMaxCols }

StyleCalls ==
    { [fn |-> "style_data_rows", ws |-> s, start_row |-> a, end_row |-> b,
       num_cols |-> n, alternate |-> alt] :
        s \in StyleSheets, a \in 1 .. (StyleMaxRows + 1), b \in 0 .. (StyleMaxRows + 1),
        n \in 0 .. (StyleMaxCols + 1), alt \in BOOLEAN }

InitStyle ==
    /\ HelperOnly
    /\ stage = "call"
    /\ call \in StyleCalls
    /\ ret = call.ws

CallStyleDataRows ==
    /\ stage = "call"
    /\ call.fn = "style_data_rows"
    /\ ret' = style_data_rows(call.ws, call.start_row, call.end_row,
                              call.num_cols, call.alternate)
    /\ stage' = "returned"
    /\ UNCHANGED << pc, wb, today, disk, console, trace, call >>

NextStyle == CallStyleDataRows

SpecStyle == InitStyle /\ [][NextStyle]_vars

(***************************************************************************)
(* Properties of a run of main(), checked under Spec.                      *)
(***************************************************************************)
\* how many builders have returned
CompletedBuilders ==
    CASE pc = "start"   -> 0
      [] pc = "helper"  -> 0
      [] pc = "sheet1"  -> 1
      [] pc = "sheet2"  -> 2
      [] pc = "sheet3"  -> 3
      [] pc = "sheet4"  -> 4
      [] pc = "sheet5"  -> 5
      [] pc = "aborted" -> IF Len(trace) >= 7 THEN 6 ELSE Len(trace) - 1
      [] OTHER          -> 6

\* the columns that hold a cell in row r
RowColumns(ws, r) == {p[2] : p \in {q \in DOMAIN ws.cells : q[1] = r}}

\* the header list of each sheet, in sheet order
HeaderLists ==
    << inventory_headers, phases_headers, risk_headers,
       raci_headers, issue_headers, checklist_headers >>

\* C1: once the six builders have run on the fresh workbook, it holds exactly
\* six sheets, named in order Migration Inventory, Migration Phases, Risk
\* Register, RACI Matrix, Issue Tracker, Validation Checklist: the default sheet
\* is gone, no name is repeated, none is out of place.
C1_SixSheetsInOrder ==
    CompletedBuilders = 6 =>
        /\ Len(wb.sheets) = 6
        /\ sheetnames(wb) =
             << "Migration Inventory", "Migration Phases", "Risk Register",
                "RACI Matrix", "Issue Tracker", "Validation Checklist" >>

C1_Witness == pc = "done" /\ Len(wb.sheets) = 6 /\ wb.sheets[1].title = "Migration Inventory"

\* C3: in every sheet, every row after the header (seed rows and blank rows
\* alike) was appended with exactly as many cells as the sheet's header list has
\* entries: its cells are those of columns 1 .. len(headers), and none of them is
\* a cell that only a later ws.cell() call created (such a cell holds None).
C3_RowArity ==
    \A i \in 1 .. CompletedBuilders :
        LET ws == wb.sheets[i]
            n  == Len(HeaderLists[i])
        IN  /\ RowColumns(ws, 1) = 1 .. n
            /\ \A r \in 2 .. max_row(ws) :
                /\ RowColumns(ws, r) = 1 .. n
                /\ \A c \in 1 .. n : ws.cells[<< r, c >>].value # None

C3_Witness ==
    /\ pc = "sheet6"
    /\ \A i \in 1 .. 6 : max_row(wb.sheets[i]) > 2
    /\ wb.sheets[1].cells[<< 23, 14 >>].value = PyS("")
    /\ wb.sheets[1].cells[<< 3, 14 >>].value = PyS("Must re-create after reassignment")

\* the shape of each sheet: columns, seed rows, blank rows
Shapes ==
    << [cols |-> 14, seed |-> 2,  blank |-> 20],
       [cols |-> 12, seed |-> 6,  blank |-> 0],
       [cols |-> 10, seed |-> 10, blank |-> 10],
       [cols |-> 8,  seed |-> 17, blank |-> 0],
       [cols |-> 10, seed |-> 1,  blank |-> 30],
       [cols |-> 9,  seed |-> 15, blank |-> 15] >>

\* row r holds nothing but empty strings
IsBlankRow(ws, r) == \A c \in RowColumns(ws, r) : ws.cells[<< r, c >>].value = PyS("")

\* C4: each built sheet has its fixed shape: the header in row 1 (and only
\* there), the listed number of columns, then the seed rows, then the blank rows,
\* so that the last row is 1 + seed + blank.
C4_Shapes ==
    \A i \in 1 .. CompletedBuilders :
        LET ws == wb.sheets[i]
            sh == Shapes[i]
        IN  /\ RowColumns(ws, 1) = 1 .. sh.cols
            /\ \A c \in 1 .. sh.cols :
                /\ ws.cells[<< 1, c >>].value = PyS(HeaderLists[i][c])
                /\ ws.cells[<< 1, c >>].font = HEADER_FONT
            /\ max_row(ws) = 1 + sh.seed + sh.blank
            /\ \A r \in 2 .. (1 + sh.seed) :
                /\ ~IsBlankRow(ws, r)
                /\ ws.cells[<< r, 1 >>].font # HEADER_FONT
            /\ \A r \in (2 + sh.seed) .. (1 + sh.seed + sh.blank) : IsBlankRow(ws, r)

C4_Witness ==
    /\ pc = "sheet6"
    /\ max_row(wb.sheets[5]) = 32
    /\ IsBlankRow(wb.sheets[5], 32)
    /\ ~IsBlankRow(wb.sheets[4], 18)

\* the filter range of each sheet as it is written, "" where there is none
FilterRanges == << "A1:N23", "", "A1:J21", "", "A1:J32", "A1:I31" >>

\* C5: the Inventory, Risk Register, Issue Tracker and Validation Checklist
\* sheets each carry a filter range from A1 to (last header column, last row of
\* the sheet, blank rows included), which is the range of the sheet with all its
\* rows appended; the Phases and RACI sheets carry none.
C5_FilterRanges ==
    \A i \in 1 .. CompletedBuilders :
        LET ws == wb.sheets[i]
        IN  /\ ws.auto_filter = FilterRanges[i]
            /\ IF i \in {2, 4}
               THEN ws.auto_filter = ""
               ELSE ws.auto_filter =
                        "A1:" \o Letters[Len(HeaderLists[i])] \o ToString(max_row(ws))

C5_Witness ==
    /\ pc = "sheet6"
    /\ wb.sheets[6].auto_filter = "A1:I31"
    /\ max_row(wb.sheets[6]) = 31
    /\ wb.sheets[2].auto_filter = ""

\* the week offsets of the phase boundaries
WeekOffsets == << 0, 2, 3, 5, 8, 12, 14 >>

\* C6: whatever date.today() returned, the phase rows hold in Planned Start
\* (column 5) and Planned End (column 6) the dates today + 7 * offset for the
\* offsets 0, 2, 3, 5, 8, 12, 14, and both columns are non-decreasing from each
\* phase to the next.
C6_PhaseDates ==
    CompletedBuilders >= 2 =>
        LET ws       == wb.sheets[2]
            start(k) == ws.cells[<< k + 1, 5 >>].value
            end(k)   == ws.cells[<< k + 1, 6 >>].value
        IN  /\ ws.cells[<< 1, 5 >>].value = PyS("Planned Start")
            /\ ws.cells[<< 1, 6 >>].value = PyS("Planned End")
            /\ \A k \in 1 .. 6 :
                /\ ws.cells[<< k + 1, 1 >>].value = PyS("Phase " \o ToString(k - 1))
                /\ start(k) = PyD(today + 7 * WeekOffsets[k])
                /\ end(k) = PyD(today + 7 * WeekOffsets[k + 1])
            /\ \A k \in 1 .. 5 :
                /\ start(k).n <= start(k + 1).n
                /\ end(k).n <= end(k + 1).n

C6_Witness ==
    /\ pc = "sheet2"
    /\ today = 738945
    /\ wb.sheets[2].cells[<< 7, 6 >>].value = PyD(739043)
    /\ wb.sheets[2].cells[<< 2, 5 >>].value = PyD(738945)

\* C8: on the RACI Matrix sheet every non-empty cell of columns 2 .. 8 of the 17
\* task rows holds one of R, A, R/A, C, I.
C8_RaciCodes ==
    CompletedBuilders >= 4 =>
        LET ws == wb.sheets[4]
        IN  \A r \in 2 .. 18 : \A c \in 2 .. 8 :
                LET v == CellAt(ws, r, c).value
                IN  v \notin { None, PyS("") } =>
                        v.t = "str" /\ v.s \in { "R", "A", "R/A", "C", "I" }

C8_Witness ==
    /\ pc = "sheet4"
    /\ wb.sheets[4].title = "RACI Matrix"
    /\ wb.sheets[4].cells[<< 18, 8 >>].value = PyS("R/A")
    /\ wb.sheets[4].cells[<< 3, 3 >>].value = PyS("A")

\* What freeze_panes = <cell> freezes: the rows above the cell and the columns
\* to its left.  TopLeft reads the cell back from its name.
TopLeft(ref) ==
    CHOOSE p \in (1 .. 26) \X (1 .. 9) : ref = Letters[p[1]] \o ToString(p[2])
FrozenRows(ws)    == IF ws.freeze_panes = "" THEN 0 ELSE TopLeft(ws.freeze_panes)[2] - 1
FrozenColumns(ws) == IF ws.freeze_panes = "" THEN 0 ELSE TopLeft(ws.freeze_panes)[1] - 1

\* the five sheets other than the RACI Matrix freeze the header row and no column
OthersFreezeHeaderOnly ==
    \A i \in (1 .. CompletedBuilders) \ {4} :
        FrozenRows(wb.sheets[i]) = 1 /\ FrozenColumns(wb.sheets[i]) = 0

\* C10 as stated: the RACI Matrix sheet has its first two columns frozen, the
\* other five sheets only the header row.
C10_TwoColumnsFrozen ==
    /\ OthersFreezeHeaderOnly
    /\ CompletedBuilders >= 4 => FrozenColumns(wb.sheets[4]) = 2

\* C10, amended: the RACI Matrix sheet is built with the header row and its
\* first column (the task names) frozen, freeze_panes being "B2"; the other five
\* sheets freeze only the header row.
C10_FirstColumnFrozen ==
    /\ OthersFreezeHeaderOnly
    /\ CompletedBuilders >= 4 =>
        /\ wb.sheets[4].freeze_panes = "B2"
        /\ FrozenRows(wb.sheets[4]) = 1
        /\ FrozenColumns(wb.sheets[4]) = 1

C10_Witness ==
    /\ pc = "sheet6"
    /\ wb.sheets[4].title = "RACI Matrix"
    /\ wb.sheets[4].freeze_panes # wb.sheets[5].freeze_panes
    /\ wb.sheets[5].freeze_panes = "A2"

\* the calls of main(), in the only order it makes them: the six builders, the
\* save, the eight print calls
CallOrder ==
    << "build_inventory_sheet", "build_phases_sheet", "build_risk_register",
       "build_raci_matrix", "build_issue_tracker", "build_validation_checklist",
       "save", "print", "print", "print", "print", "print", "print", "print", "print" >>

IsPrefix(s, t) == Len(s) <= Len(t) /\ \A i \in 1 .. Len(s) : s[i] = t[i]

Saved == Len(trace) >= 7

\* the run ended in a builder (its call is among the first six)
BuilderFailed == pc = "aborted" /\ Len(trace) <= 6

\* the run ended in the save (the seventh call)
SaveFailed == pc = "aborted" /\ Len(trace) = 7

\* the run ended in a print call, after the save returned
PrintFailed == pc = "aborted" /\ Len(trace) >= 8

Untouched == disk \in { ABSENT, STALE }

CompleteByThisRun ==
    disk = [exists |-> TRUE, by |-> "this run", complete |-> TRUE,
            sheets |-> sheetnames(wb)]

\* the order of a run: the builders 1 .. 6, then at most one save, then the
\* summary, which is printed only once the save has returned
RunOrder ==
    /\ IsPrefix(trace, CallOrder)
    /\ Saved => Len(wb.sheets) = 6 /\ \A i \in 1 .. 6 : max_row(wb.sheets[i]) > 1
    /\ ~Saved => Untouched
    /\ console # << >> =>
        /\ Len(trace) = 7 + Len(console) + (IF PrintFailed THEN 1 ELSE 0)
        /\ console = SubSeq(summary(wb), 1, Len(console))
        /\ CompleteByThisRun
    /\ pc = "done" => console = summary(wb)

\* C2 as stated: a run is all-or-nothing for the output file; when a builder or
\* the save fails, this run has written no file, and a file of an earlier run is
\* as it was.
C2_AllOrNothing ==
    /\ RunOrder
    /\ BuilderFailed \/ SaveFailed => Untouched

\* C2, amended: the save happens at most once, only after the six builders have
\* run in order, and the summary is printed only after the save returned.  A
\* failing builder aborts the run with the output file untouched.  A failing
\* save aborts the run with no summary printed, and leaves the file either
\* untouched or truncated and incomplete.  A failing print call (the first line
\* on a stdout that cannot encode it, any line on a stdout that cannot be
\* written) aborts the run after the save, with the complete file on disk and
\* the lines of the earlier print calls printed.  A complete file is only ever
\* the result of a successful save.
C2_SaveOnceAfterBuilders ==
    /\ RunOrder
    /\ BuilderFailed => Untouched /\ console = << >>
    /\ SaveFailed =>
        /\ console = << >>
        /\ \/ Untouched
           \/ disk.by = "this run" /\ ~disk.complete
    /\ PrintFailed =>
        /\ CompleteByThisRun
        /\ Len(console) < Len(summary(wb))
        /\ console = SubSeq(summary(wb), 1, Len(console))
    /\ disk.by = "this run" /\ disk.complete =>
        /\ Saved
        /\ ~SaveFailed
        /\ CompleteByThisRun

C2_Witness ==
    /\ pc = "aborted"
    /\ Saved
    /\ disk.by = "this run"
    /\ ~disk.complete
    /\ console = << >>

(***************************************************************************)
(* auto_width, checked under SpecWidth.                                    *)
(***************************************************************************)
RECURSIVE DigitCount(_)
DigitCount(n) == IF n < 10 THEN 1 ELSE 1 + DigitCount(n \div 10)

\* the length of a cell's text, that of str(value or ""): a string's length, a
\* number's digits (but a cell holding the number 0 counts as empty), the ten
\* characters of an ISO date, nothing for an empty cell
MeasuredLen(v) ==
    CASE v.t = "str"  -> Len(v.s)
      [] v.t = "int"  -> IF v.n = 0 THEN 0
                         ELSE IF v.n < 0 THEN 1 + DigitCount(0 - v.n) ELSE DigitCount(v.n)
      [] v.t = "date" -> 10
      [] OTHER        -> 0

\* the longest text of column c, header included, plus the padding of 4
Padded(ws, c) ==
    4 + SetMax({ MeasuredLen(CellAt(ws, r, c).value) : r \in 1 .. max_row(ws) })

\* x clamped to [lo, hi]
ClampTo(x, lo, hi) == IF x < lo THEN lo ELSE IF x > hi THEN hi ELSE x

\* the sheets of the run that the builders have built
BuiltSheetsOfRun == { wb.sheets[i] : i \in 1 .. CompletedBuilders }

\* C7 as stated: after auto_width every column 1 .. n has the width
\* max(header text length, longest data-cell text length) + 4 clamped to
\* [minWidth, maxWidth]; and in every built sheet every column width lies in
\* [12, 50] and is at least that padded length.  (Text lengths are taken as
\* auto_width takes them, and the limits as an interval, minWidth <= maxWidth.)
C7_WidthAtLeastPadded ==
    /\ stage = "returned" /\ call.min_width <= call.max_width =>
        \A c \in 1 .. call.num_cols :
            ret.column_widths[Letters[c]] =
                ClampTo(Padded(call.ws, c), call.min_width, call.max_width)
    /\ \A ws \in BuiltSheetsOfRun : \A c \in 1 .. HeaderCount(ws) :
        /\ ws.column_widths[Letters[c]] \in 12 .. 50
        /\ ws.column_widths[Letters[c]] >= Padded(ws, c)

\* C7, amended: after auto_width every column 1 .. n has the width
\* min(max(L + 4, minWidth), maxWidth), where L is the greatest
\* len(str(value or "")) over the column's cells of rows 1 .. last row (an empty
\* cell and a cell holding 0 count as 0): L + 4 clamped to [minWidth, maxWidth]
\* when minWidth <= maxWidth, and maxWidth otherwise.  In every built sheet every
\* column width lies in [12, 50] and is at least min(L + 4, 50): a column whose
\* padded length is above 50 is 50 wide, less than its padded length.
C7_WidthIsClampedPadded ==
    /\ stage = "returned" =>
        /\ \A c \in 1 .. call.num_cols :
            LET w == ret.column_widths[Letters[c]]
                p == Padded(call.ws, c)
            IN  IF call.min_width <= call.max_width
                THEN w = ClampTo(p, call.min_width, call.max_width)
                ELSE w = call.max_width
        /\ \A l \in DOMAIN ret.column_widths :
            (\A c \in 1 .. call.num_cols : l # Letters[c]) =>
                /\ l \in DOMAIN call.ws.column_widths
                /\ ret.column_widths[l] = call.ws.column_widths[l]
    /\ \A ws \in BuiltSheetsOfRun : \A c \in 1 .. HeaderCount(ws) :
        LET w == ws.column_widths[Letters[c]]
            p == Padded(ws, c)
        IN  /\ w \in 12 .. 50
            /\ w >= Min(p, 50)
            /\ p > 50 => w = 50 /\ w < p

\* a call on a test sheet whose first column is clamped down and whose second,
\* never written, is clamped up; and a built sheet with a column above 50
C7_Witness ==
    \/ /\ stage = "returned"
       /\ ~call.built
       /\ call.num_cols = 2
       /\ max_row(call.ws) = 3
       /\ call.min_width = 5
       /\ call.max_width = 12
       /\ Padded(call.ws, 1) = 14
       /\ ret.column_widths["A"] = 12
       /\ Padded(call.ws, 2) = 4
       /\ ret.column_widths["B"] = 5
       /\ CellAt(call.ws, 2, 1).value = PyI(0)
    \/ /\ stage = "returned"
       /\ call.built
       /\ call.ws.title = "Risk Register"
       /\ Padded(call.ws, 7) > 50
       /\ call.ws.column_widths["G"] = 50
       /\ ret.column_widths["G"] = call.max_width

(***************************************************************************)
(* style_data_rows, checked under SpecStyle.                               *)
(***************************************************************************)
\* row r is at an odd offset from start: start + 1, start + 3, ...
OddOffset(r, start) == \E k \in 0 .. r : r = start + 2 * k + 1

InRange(p) ==
    /\ call.start_row <= p[1] /\ p[1] <= call.end_row
    /\ 1 <= p[2] /\ p[2] <= call.num_cols

\* C9: style_data_rows gives every cell of rows startRow .. endRow, columns
\* 1 .. n the thin border and the top-aligned wrap; with alternate, the rows at an
\* odd offset from startRow get the light tint and the rows at an even offset get
\* none (their fill stays as it was), and without alternate no row gets one; no
\* cell value changes, and nothing outside that range of rows and columns does.
C9_StyleDataRows ==
    stage = "returned" =>
        /\ \A p \in (call.start_row .. call.end_row) \X (1 .. call.num_cols) :
            /\ p \in DOMAIN ret.cells
            /\ ret.cells[p].border = BORDER_THIN
            /\ ret.cells[p].alignment = WRAP_ALIGN
            /\ ret.cells[p].fill =
                 IF call.alternate /\ OddOffset(p[1], call.start_row)
                 THEN ALT_ROW_FILL
                 ELSE CellAt(call.ws, p[1], p[2]).fill
            /\ ret.cells[p].value = CellAt(call.ws, p[1], p[2]).value
            /\ ret.cells[p].font = CellAt(call.ws, p[1], p[2]).font
        /\ \A p \in (DOMAIN ret.cells) \cup (DOMAIN call.ws.cells) :
            ~InRange(p) =>
                /\ p \in DOMAIN ret.cells
                /\ p \in DOMAIN call.ws.cells
                /\ ret.cells[p] = call.ws.cells[p]
        /\ ret.title = call.ws.title
        /\ ret.column_widths = call.ws.column_widths
        /\ ret.row_heights = call.ws.row_heights
        /\ ret.auto_filter = call.ws.auto_filter
        /\ ret.freeze_panes = call.ws.freeze_panes

\* rows 2 .. 5 of a sheet with a styled header: row 3 and row 5 tinted, row 2 and
\* row 4 not, row 5 created by the call, the header as it was
C9_Witness ==
    /\ stage = "returned"
    /\ call.alternate
    /\ call.start_row = 2
    /\ call.end_row = 5
    /\ call.num_cols = 2
    /\ max_row(call.ws) = 4
    /\ ret.cells[<< 3, 2 >>].fill = ALT_ROW_FILL
    /\ ret.cells[<< 5, 1 >>].fill = ALT_ROW_FILL
    /\ ret.cells[<< 2, 1 >>].fill = NO_FILL
    /\ ret.cells[<< 4, 2 >>].fill = NO_FILL
    /\ ret.cells[<< 4, 2 >>].value = PyS("B4")
    /\ ret.cells[<< 1, 1 >>].fill = HEADER_FILL

====
